---- MODULE Spec2Model ----
(***************************************************************************)
(* Model of embedding_server/local_embedding_server.py: a FastAPI          *)
(* application with one lazily created module-level model handle (_model), *)
(* the POST /v1/embeddings handler and three GET handlers.                 *)
(*                                                                         *)
(* The handlers are plain "def" functions, so the framework runs them on   *)
(* worker threads.  A POST request is split into the steps at which the    *)
(* module-level handle is read or written (lines 19, 20 and 21), so that   *)
(* two requests can interleave inside get_model.  Spec is that interleaved *)
(* execution; SpecSeq runs the requests one at a time, each to completion. *)
(***************************************************************************)
EXTENDS Naturals, Sequences, FiniteSets

\* ---------------------------------------------------------------- bounds
\* Longest request input, in characters.
MaxLen == 3
\* Most calls of the SentenceTransformer constructor in one process lifetime.
MaxLoads == 2

\* Worker threads handling POST requests at the same time.
Workers == {1, 2}

\* ------------------------------------------------------------ the inputs
\* Characters of a request input: one that str.strip() keeps and one that
\* it removes.
Whitespace == {" "}
Chars == {"a"} \cup Whitespace

RECURSIVE SeqsUpTo(_)
SeqsUpTo(n) ==
    IF n = 0 THEN {<<>>}
    ELSE SeqsUpTo(n - 1) \cup
         {Append(s, c) : s \in {x \in SeqsUpTo(n - 1) : Len(x) = n - 1}, c \in Chars}

Inputs == SeqsUpTo(MaxLen)

\* os.getenv("EMBEDDING_MODEL", default): the identifier read once at import.
DefaultModelName == "sentence-transformers/all-MiniLM-L6-v2"
ModelNames == {DefaultModelName, "custom-model"}

\* ---------------------------------------------------- the pure functions
\* str.strip() with no argument: drop leading and trailing whitespace.
RECURSIVE LStrip(_)
LStrip(s) ==
    IF s = <<>> THEN s
    ELSE IF Head(s) \in Whitespace THEN LStrip(Tail(s)) ELSE s

RECURSIVE RStrip(_)
RStrip(s) ==
    IF s = <<>> THEN s
    ELSE IF s[Len(s)] \in Whitespace THEN RStrip(SubSeq(s, 1, Len(s) - 1)) ELSE s

Strip(s) == RStrip(LStrip(s))

\* The numeric code of a character, the stand-in for the tokenizer.
Code(c) == IF c = "a" THEN 1 ELSE 2

RECURSIVE SumCodes(_)
SumCodes(s) == IF s = <<>> THEN 0 ELSE Code(Head(s)) + SumCodes(Tail(s))

\* model.encode(text, convert_to_numpy=True): a fixed-length vector that is
\* a function of the text handed over; container is the type of the value
\* the model returns ("ndarray" has tolist(), "tuple" does not).
Encode(s, container) == [type |-> container, items |-> <<Len(s), SumCodes(s)>>]

Containers == {"ndarray", "tuple"}

\* raw_vector.tolist() if hasattr(raw_vector, "tolist") else list(raw_vector)
ToList(raw) ==
    IF raw.type = "ndarray"
    THEN [i \in 1..Len(raw.items) |-> raw.items[i]]
    ELSE [i \in DOMAIN raw.items |-> raw.items[i]]

\* ------------------------------------------------------------ responses
None == 0

\* The body of a GET response; empty for the other responses.
NoBody == [status |-> "", info |-> ""]

NoResp == [status |-> 0, detail |-> "", data |-> <<>>, body |-> NoBody]

\* raise HTTPException(status_code=400, detail="Input must not be empty")
BadRequest ==
    [status |-> 400, detail |-> "Input must not be empty", data |-> <<>>,
     body |-> NoBody]

\* An exception that leaves the handler uncaught: the framework answers 500.
ServerError ==
    [status |-> 500, detail |-> "Internal Server Error", data |-> <<>>,
     body |-> NoBody]

\* EmbeddingResponse(data=[EmbeddingData(embedding=vector)])
EmbeddingResponse(vector) ==
    [status |-> 200, detail |-> "", data |-> <<[embedding |-> vector]>>,
     body |-> NoBody]

\* A dict returned by a GET handler, sent with the route's status code.
GetResponse(code, st, info) ==
    [status |-> code, detail |-> "", data |-> <<>>,
     body |-> [status |-> st, info |-> info]]

\* ---------------------------------------------------------------- state
VARIABLES
    MODEL_NAME,   \* the configured model identifier (line 11)
    _model,       \* the module-level handle (line 15): None or an instance
    loads,        \* constructor calls that returned an instance
    failures,     \* constructor calls that raised
    pc,           \* where each worker is in its handler
    route,        \* the route of the request a worker is handling
    input,        \* request.input of the POST request a worker is handling
    text,         \* the local "text" (line 38)
    inst,         \* the instance a worker's constructor call returned
    model,        \* the local "model" (line 42)
    exc,          \* the exception that ended the worker's request
    resp          \* the response of the worker's request

vars == <<MODEL_NAME, _model, loads, failures, pc, route, input, text, inst,
          model, exc, resp>>

shared == <<MODEL_NAME, _model, loads, failures>>

Init ==
    /\ MODEL_NAME \in ModelNames
    /\ _model = None
    /\ loads = 0
    /\ failures = 0
    /\ pc = [t \in Workers |-> "idle"]
    /\ route = [t \in Workers |-> ""]
    /\ input = [t \in Workers |-> <<>>]
    /\ text = [t \in Workers |-> <<>>]
    /\ inst = [t \in Workers |-> None]
    /\ model = [t \in Workers |-> None]
    /\ exc = [t \in Workers |-> "none"]
    /\ resp = [t \in Workers |-> NoResp]

\* Mutant of Post: the input is tested without being stripped.
PostNoStrip(t, s) ==
    /\ pc[t] = "idle"
    /\ route' = [route EXCEPT ![t] = "POST /v1/embeddings"]
    /\ input' = [input EXCEPT ![t] = s]
    /\ text' = [text EXCEPT ![t] = s]
    /\ IF s = <<>>
       THEN /\ pc' = [pc EXCEPT ![t] = "done"]
            /\ exc' = [exc EXCEPT ![t] = "HTTPException"]
            /\ resp' = [resp EXCEPT ![t] = BadRequest]
       ELSE /\ pc' = [pc EXCEPT ![t] = "check"]
            /\ UNCHANGED <<exc, resp>>
    /\ UNCHANGED <<shared, inst, model>>

\* Mutant of Post: the handler goes on to get_model before the emptiness
\* test has ended the request.
PostNoEarlyExit(t, s) ==
    /\ pc[t] = "idle"
    /\ route' = [route EXCEPT ![t] = "POST /v1/embeddings"]
    /\ input' = [input EXCEPT ![t] = s]
    /\ text' = [text EXCEPT ![t] = Strip(s)]
    /\ pc' = [pc EXCEPT ![t] = "check"]
    /\ UNCHANGED <<shared, inst, model, exc, resp>>

\* ------------------------------------------------- POST /v1/embeddings
\* Lines 37-40: a worker enters generate_embeddings with a request;
\* text = request.input.strip(); empty text raises the 400.
Post(t, s) ==
    /\ pc[t] = "idle"
    /\ route' = [route EXCEPT ![t] = "POST /v1/embeddings"]
    /\ input' = [input EXCEPT ![t] = s]
    /\ text' = [text EXCEPT ![t] = Strip(s)]
    /\ IF Strip(s) = <<>>
       THEN /\ pc' = [pc EXCEPT ![t] = "done"]
            /\ exc' = [exc EXCEPT ![t] = "HTTPException"]
            /\ resp' = [resp EXCEPT ![t] = BadRequest]
       ELSE /\ pc' = [pc EXCEPT ![t] = "check"]
            /\ UNCHANGED <<exc, resp>>
    /\ UNCHANGED <<shared, inst, model>>

\* Mutant of GetModelCheck: the handle is constructed on every call.
GetModelCheckAlways(t) ==
    /\ pc[t] = "check"
    /\ pc' = [pc EXCEPT ![t] = "load"]
    /\ UNCHANGED <<shared, route, input, text, inst, model, exc, resp>>

\* Line 19: if _model is None.
GetModelCheck(t) ==
    /\ pc[t] = "check"
    /\ pc' = [pc EXCEPT ![t] = IF _model = None THEN "load" ELSE "ret"]
    /\ UNCHANGED <<shared, route, input, text, inst, model, exc, resp>>

\* Line 20, right-hand side: SentenceTransformer(MODEL_NAME) returns.
LoadOk(t) ==
    /\ pc[t] = "load"
    /\ loads + failures < MaxLoads
    /\ loads' = loads + 1
    /\ inst' = [inst EXCEPT ![t] = loads + 1]
    /\ pc' = [pc EXCEPT ![t] = "store"]
    /\ UNCHANGED <<MODEL_NAME, _model, failures, route, input, text, model, exc, resp>>

\* Mutant of LoadFail: the failure is remembered in the handle, so that the
\* "is None" test of later calls no longer leads to the constructor.
LoadFailCached(t) ==
    /\ pc[t] = "load"
    /\ loads + failures < MaxLoads
    /\ failures' = failures + 1
    /\ _model' = MaxLoads + 1
    /\ exc' = [exc EXCEPT ![t] = "ModelLoadError"]
    /\ resp' = [resp EXCEPT ![t] = ServerError]
    /\ pc' = [pc EXCEPT ![t] = "done"]
    /\ UNCHANGED <<MODEL_NAME, loads, route, input, text, inst, model>>

\* Mutant of LoadFail: the failure clears the handle.
LoadFailResets(t) ==
    /\ pc[t] = "load"
    /\ loads + failures < MaxLoads
    /\ failures' = failures + 1
    /\ _model' = None
    /\ exc' = [exc EXCEPT ![t] = "ModelLoadError"]
    /\ resp' = [resp EXCEPT ![t] = ServerError]
    /\ pc' = [pc EXCEPT ![t] = "done"]
    /\ UNCHANGED <<MODEL_NAME, loads, route, input, text, inst, model>>

\* Line 20, right-hand side: SentenceTransformer(MODEL_NAME) raises; nothing
\* in get_model or generate_embeddings catches it.
LoadFail(t) ==
    /\ pc[t] = "load"
    /\ loads + failures < MaxLoads
    /\ failures' = failures + 1
    /\ exc' = [exc EXCEPT ![t] = "ModelLoadError"]
    /\ resp' = [resp EXCEPT ![t] = ServerError]
    /\ pc' = [pc EXCEPT ![t] = "done"]
    /\ UNCHANGED <<MODEL_NAME, _model, loads, route, input, text, inst, model>>

\* Mutant of Store: the handle is tested again before the assignment.
StoreIfUnset(t) ==
    /\ pc[t] = "store"
    /\ _model' = IF _model = None THEN inst[t] ELSE _model
    /\ pc' = [pc EXCEPT ![t] = "ret"]
    /\ UNCHANGED <<MODEL_NAME, loads, failures, route, input, text, inst, model,
                   exc, resp>>

\* Line 20, the assignment to the global.
Store(t) ==
    /\ pc[t] = "store"
    /\ _model' = inst[t]
    /\ pc' = [pc EXCEPT ![t] = "ret"]
    /\ UNCHANGED <<MODEL_NAME, loads, failures, route, input, text, inst, model,
                   exc, resp>>

\* Line 21 and line 42: return _model, bound to the local "model".
GetModelReturn(t) ==
    /\ pc[t] = "ret"
    /\ model' = [model EXCEPT ![t] = _model]
    /\ pc' = [pc EXCEPT ![t] = "encode"]
    /\ UNCHANGED <<shared, route, input, text, inst, exc, resp>>

\* Mutant of EncodeOk: request.input is encoded instead of text.
EncodeOkUntrimmed(t, container) ==
    /\ pc[t] = "encode"
    /\ resp' = [resp EXCEPT ![t] = EmbeddingResponse(ToList(Encode(input[t], container)))]
    /\ pc' = [pc EXCEPT ![t] = "done"]
    /\ UNCHANGED <<shared, route, input, text, inst, model, exc>>

\* Lines 43-45: encode the text, convert the vector, build the response.
EncodeOk(t, container) ==
    /\ pc[t] = "encode"
    /\ resp' = [resp EXCEPT ![t] = EmbeddingResponse(ToList(Encode(text[t], container)))]
    /\ pc' = [pc EXCEPT ![t] = "done"]
    /\ UNCHANGED <<shared, route, input, text, inst, model, exc>>

\* Mutant of EncodeFail: the exception is caught and an empty embedding sent.
EncodeFailSwallowed(t) ==
    /\ pc[t] = "encode"
    /\ exc' = [exc EXCEPT ![t] = "InferenceError"]
    /\ resp' = [resp EXCEPT ![t] = EmbeddingResponse(<<>>)]
    /\ pc' = [pc EXCEPT ![t] = "done"]
    /\ UNCHANGED <<shared, route, input, text, inst, model>>

\* Line 43: model.encode raises; nothing catches it.
EncodeFail(t) ==
    /\ pc[t] = "encode"
    /\ exc' = [exc EXCEPT ![t] = "InferenceError"]
    /\ resp' = [resp EXCEPT ![t] = ServerError]
    /\ pc' = [pc EXCEPT ![t] = "done"]
    /\ UNCHANGED <<shared, route, input, text, inst, model>>

\* ------------------------------------------------------ the GET handlers
\* Mutant of Healthz: a readiness check that reports on the handle.
HealthzReadiness(t) ==
    /\ pc[t] = "idle"
    /\ route' = [route EXCEPT ![t] = "GET /healthz"]
    /\ resp' = [resp EXCEPT ![t] =
                   IF _model = None THEN GetResponse(503, "loading", MODEL_NAME)
                   ELSE GetResponse(200, "ok", MODEL_NAME)]
    /\ pc' = [pc EXCEPT ![t] = "done"]
    /\ UNCHANGED <<shared, input, text, inst, model, exc>>

\* Mutant of Healthz: the check warms the model up when it is not loaded.
HealthzWarmsUp(t) ==
    /\ pc[t] = "idle"
    /\ route' = [route EXCEPT ![t] = "GET /healthz"]
    /\ resp' = [resp EXCEPT ![t] = GetResponse(200, "ok", MODEL_NAME)]
    /\ pc' = [pc EXCEPT ![t] = "done"]
    /\ IF _model = None /\ loads + failures < MaxLoads
       THEN /\ loads' = loads + 1
            /\ _model' = loads + 1
       ELSE UNCHANGED <<loads, _model>>
    /\ UNCHANGED <<MODEL_NAME, failures, input, text, inst, model, exc>>

\* Lines 48-50.
Healthz(t) ==
    /\ pc[t] = "idle"
    /\ route' = [route EXCEPT ![t] = "GET /healthz"]
    /\ resp' = [resp EXCEPT ![t] = GetResponse(200, "ok", MODEL_NAME)]
    /\ pc' = [pc EXCEPT ![t] = "done"]
    /\ UNCHANGED <<shared, input, text, inst, model, exc>>

\* Lines 53-55.
Landing(t) ==
    /\ pc[t] = "idle"
    /\ route' = [route EXCEPT ![t] = "GET /"]
    /\ resp' = [resp EXCEPT ![t] =
                   GetResponse(200, "ok", "Use POST /v1/embeddings for embeddings")]
    /\ pc' = [pc EXCEPT ![t] = "done"]
    /\ UNCHANGED <<shared, input, text, inst, model, exc>>

\* Lines 58-60: return None under status_code=204.
Favicon(t) ==
    /\ pc[t] = "idle"
    /\ route' = [route EXCEPT ![t] = "GET /favicon.ico"]
    /\ resp' = [resp EXCEPT ![t] = GetResponse(204, "", "")]
    /\ pc' = [pc EXCEPT ![t] = "done"]
    /\ UNCHANGED <<shared, input, text, inst, model, exc>>

\* The response is sent and the handler's locals are gone.
Respond(t) ==
    /\ pc[t] = "done"
    /\ pc' = [pc EXCEPT ![t] = "idle"]
    /\ route' = [route EXCEPT ![t] = ""]
    /\ input' = [input EXCEPT ![t] = <<>>]
    /\ text' = [text EXCEPT ![t] = <<>>]
    /\ inst' = [inst EXCEPT ![t] = None]
    /\ model' = [model EXCEPT ![t] = None]
    /\ exc' = [exc EXCEPT ![t] = "none"]
    /\ resp' = [resp EXCEPT ![t] = NoResp]
    /\ UNCHANGED shared

\* ------------------------------------------------------ specifications
Step(t) ==
    \/ GetModelCheck(t)
    \/ LoadOk(t)
    \/ LoadFail(t)
    \/ Store(t)
    \/ GetModelReturn(t)
    \/ \E c \in Containers : EncodeOk(t, c)
    \/ EncodeFail(t)
    \/ Respond(t)

Next ==
    \/ \E t \in Workers : \E s \in Inputs : Post(t, s)
    \/ \E t \in Workers : Healthz(t)
    \/ \E t \in Workers : Landing(t)
    \/ \E t \in Workers : Favicon(t)
    \/ \E t \in Workers : Step(t)

Spec == Init /\ [][Next]_vars

\* Single-threaded execution: a request is taken up only when no other
\* request is being handled, and runs to completion.
Quiet == \A u \in Workers : pc[u] = "idle"

NextSeq ==
    \/ \E t \in Workers : \E s \in Inputs : Quiet /\ Post(t, s)
    \/ \E t \in Workers : Quiet /\ Healthz(t)
    \/ \E t \in Workers : Quiet /\ Landing(t)
    \/ \E t \in Workers : Quiet /\ Favicon(t)
    \/ \E t \in Workers : Step(t)

SpecSeq == Init /\ [][NextSeq]_vars

\* ------------------------------------------------------------ properties
\* The input is empty after trimming: it has no character that is not
\* whitespace.
AllWhitespace(s) == \A i \in 1..Len(s) : s[i] \in Whitespace

\* x is s without its leading and trailing whitespace.
IsTrimOf(x, s) ==
    \E i \in 1..(Len(s) + 1) : \E j \in 0..Len(s) :
        /\ x = SubSeq(s, i, j)
        /\ \A k \in 1..(i - 1) : s[k] \in Whitespace
        /\ \A k \in (j + 1)..Len(s) : s[k] \in Whitespace
        /\ x # <<>> => (x[1] \notin Whitespace /\ x[Len(x)] \notin Whitespace)

IsPost(t) == route[t] = "POST /v1/embeddings"

IsGet(r) == r \in {"GET /healthz", "GET /", "GET /favicon.ico"}

\* C1 as stated: under single-threaded execution at most one model load
\* operation (a call of the constructor, whether it returns or raises)
\* occurs per process lifetime.
C1_AtMostOneLoadOperation == loads + failures <= 1

\* C1 amended: under single-threaded execution at most one model load
\* completes per process lifetime, and once a load has completed no request
\* is in the constructor again; only loads that failed are repeated.
C1_AtMostOneCompletedLoad ==
    /\ loads <= 1
    /\ \A t \in Workers : pc[t] \in {"load", "store"} => loads = (IF pc[t] = "store" THEN 1 ELSE 0)
    /\ _model # None => loads = 1

\* A later request was answered with the handle an earlier request loaded.
C1_Witness ==
    /\ loads = 1
    /\ \E t \in Workers :
          /\ IsPost(t) /\ pc[t] = "done" /\ resp[t].status = 200
          /\ inst[t] = None /\ model[t] = 1

\* C2: a POST request whose input is empty after trimming ends with the 400
\* "Input must not be empty" response, whatever the handle holds.
C2_EmptyInputIs400 ==
    \A t \in Workers :
        (IsPost(t) /\ AllWhitespace(input[t])) =>
            /\ pc[t] = "done"
            /\ resp[t].status = 400
            /\ resp[t].detail = "Input must not be empty"
            /\ resp[t].data = <<>>

\* A whitespace-only input was refused while the handle was loaded.
C2_Witness ==
    \E t \in Workers :
        /\ IsPost(t) /\ pc[t] = "done" /\ resp[t].status = 400
        /\ Len(input[t]) = 2 /\ AllWhitespace(input[t])
        /\ _model # None

\* C3: a POST request whose input is not empty after trimming and that ended
\* without an exception has a 200 response with exactly one data element,
\* whose embedding is the encoding of the trimmed input.
C3_EmbedsTrimmedText ==
    \A t \in Workers :
        (IsPost(t) /\ pc[t] = "done" /\ ~AllWhitespace(input[t]) /\ exc[t] = "none") =>
            /\ resp[t].status = 200
            /\ Len(resp[t].data) = 1
            /\ \E x \in Inputs : \E c \in Containers :
                  /\ IsTrimOf(x, input[t])
                  /\ resp[t].data[1].embedding = Encode(x, c).items

\* A later request with whitespace on both sides was answered.
C3_Witness ==
    \E t \in Workers :
        /\ IsPost(t) /\ pc[t] = "done" /\ resp[t].status = 200
        /\ input[t] = <<" ", "a", " ">>
        /\ inst[t] = None

\* C4: every GET /healthz is answered 200 with status "ok" and the
\* configured model identifier, whatever the handle holds.
C4_HealthzAlwaysOk ==
    \A t \in Workers :
        route[t] = "GET /healthz" =>
            /\ pc[t] = "done"
            /\ resp[t].status = 200
            /\ resp[t].body = [status |-> "ok", info |-> MODEL_NAME]

\* A health check was answered after a failed load, while the other worker
\* is in the constructor and the handle is unset.
C4_Witness ==
    \E t \in Workers : \E u \in Workers :
        /\ route[t] = "GET /healthz" /\ pc[t] = "done"
        /\ pc[u] = "load"
        /\ failures > 0 /\ _model = None
        /\ MODEL_NAME # DefaultModelName

\* C5: a failed load leaves the handle unset (it stays unset for as long as
\* no load has completed), and a request that finds it unset goes to the
\* constructor again.
C5_FailedLoadNotCached ==
    /\ [](loads = 0 => _model = None)
    /\ [][\A t \in Workers :
            /\ (exc[t] = "none" /\ exc'[t] = "ModelLoadError") => _model' = _model
            /\ (pc[t] = "check" /\ pc'[t] # "check" /\ loads = 0) => pc'[t] = "load"]_vars

\* After a failed load a later request called the constructor again.
C5_Witness ==
    /\ failures >= 1
    /\ \E t \in Workers : pc[t] = "store" /\ inst[t] = 1 /\ _model = None

\* C6: the store of get_model is unconditional: a worker that constructed
\* an instance assigns it to the handle whatever the handle holds by then.
C6_StoreOverwrites ==
    [][\A t \in Workers : (pc[t] = "store" /\ pc'[t] = "ret") => _model' = inst[t]]_vars

\* Two workers passed the check, both constructed an instance and both
\* stored it: the handle holds the second and the first's is overwritten.
C6_Witness ==
    /\ loads = 2 /\ failures = 0
    /\ \E t \in Workers : \E u \in Workers :
          /\ pc[t] = "ret" /\ pc[u] = "ret"
          /\ inst[t] # None /\ inst[u] # None /\ inst[t] # inst[u]
          /\ _model = inst[u]

\* C7: once the handle holds an instance it never is unset again.
C7_HandleNeverUnset == [][_model # None => _model' # None]_vars

\* The handle is loaded, and a load of another worker has failed since.
C7_Witness ==
    /\ _model # None
    /\ \E t \in Workers : \E u \in Workers :
          /\ exc[t] = "ModelLoadError"
          /\ IsPost(u) /\ pc[u] = "done" /\ exc[u] = "HTTPException"

\* C8: a request ended by a load or inference failure is over at once and
\* its response is the server error, not a 200 and not the 400.
C8_FailurePropagates ==
    \A t \in Workers :
        exc[t] \in {"ModelLoadError", "InferenceError"} =>
            /\ pc[t] = "done"
            /\ resp[t] = ServerError
            /\ resp[t].status \notin {200, 400}

\* One request ended by a load failure and one by an inference failure.
C8_Witness ==
    \E t \in Workers : \E u \in Workers :
        /\ exc[t] = "ModelLoadError" /\ resp[t].status = 500
        /\ exc[u] = "InferenceError" /\ resp[u].status = 500

\* C9: the handle and the load counts change only in the load and store
\* steps of a POST request's get_model; the GET handlers and the rest of an
\* embedding request leave them, and the model identifier, unchanged.
C9_OnlyGetModelWrites ==
    [][/\ MODEL_NAME' = MODEL_NAME
       /\ (<<_model, loads, failures>>' # <<_model, loads, failures>>) =>
             \E t \in Workers :
                 /\ IsPost(t) /\ pc[t] \in {"load", "store"} /\ pc'[t] # pc[t]
                 /\ \A u \in Workers \ {t} : pc'[u] = pc[u]
       /\ (_model' # _model) => \E t \in Workers : pc[t] = "store" /\ pc'[t] = "ret"
       /\ \A t \in Workers :
             (IsGet(route'[t]) /\ route[t] = "") =>
                 <<_model, loads, failures>>' = <<_model, loads, failures>>]_vars

\* A GET request was answered while the handle is unset and the other
\* worker is between the check and the store.
C9_Witness ==
    \E t \in Workers : \E u \in Workers :
        /\ IsGet(route[t]) /\ pc[t] = "done"
        /\ pc[u] = "store" /\ _model = None /\ loads = 1

\* C10: a POST request whose input is empty after trimming never enters
\* get_model, and every step that changes the handle or the load counts is
\* a step of a request whose input is not empty after trimming.
C10_ValidationFirst ==
    /\ [](\A t \in Workers :
            (IsPost(t) /\ AllWhitespace(input[t])) =>
                (pc[t] = "done" /\ inst[t] = None /\ model[t] = None))
    /\ [][(<<_model, loads, failures>>' # <<_model, loads, failures>>) =>
             \E t \in Workers :
                 IsPost(t) /\ pc'[t] # pc[t] /\ ~AllWhitespace(input[t])]_vars

\* An invalid request was refused with nothing loaded or attempted.
C10_Witness ==
    /\ _model = None /\ loads = 0 /\ failures = 0
    /\ \E t \in Workers :
          /\ IsPost(t) /\ pc[t] = "done" /\ exc[t] = "HTTPException"
          /\ input[t] = <<" ">>
====
